---- MODULE Spec2Model ----
(***************************************************************************)
(* State-machine model of MarketWatcher (market_watcher.cpp): the tick     *)
(* filter (processDepthMarketData), the validator table                    *)
(* (setupTimeValidators), the save-timer tables (setupTimers), the flush   *)
(* handler (timesUp), the event switch (customEvent), subscribeInstruments *)
(* and setWeekend.                                                         *)
(*                                                                         *)
(* TimeMapper (mapTime), TimeValidator, MultipleTimer, hhmmssToSec,        *)
(* market_info (getTradingTimeRanges, getEndPoints) and dateToUtcTimestamp *)
(* are declared in headers that are not part of market_watcher.cpp; they   *)
(* are modelled from the specification (sections 4.1 - 4.3, 6).            *)
(*                                                                         *)
(* Times of day (QTime) are milliseconds since midnight.  Trading days and *)
(* calendar dates are small day numbers; the epoch of day d is d * 86400   *)
(* seconds, so that mappedSeconds * 1000 + msec stays inside 32 bits.      *)
(***************************************************************************)
EXTENDS Integers, Sequences, FiniteSets, TLC

(***************************************************************************)
(* Bounds of the model.                                                    *)
(***************************************************************************)
\* trading days the feed may report at login: 1 .. MaxDay
MaxDay == 2
\* number of ticks that may be accepted in one behaviour
MaxAccepted == 2

(***************************************************************************)
(* Program constants.                                                      *)
(***************************************************************************)
\* "Save data 1 minute after market close": timePoint.addSecs(60)
SaveDelaySecs == 60
\* QTime(5, 0): latest local hour of the Saturday settlement flush
SettlementCutoffHour == 5
\* earliestTime = dateToUtcTimestamp(nextTradingday) + 8 * 3600
WeekendOffsetHours == 8
\* seconds, milliseconds of one day (QTime wraps at 24 h)
SecsPerDay == 86400
MSecsPerDay == 86400000
\* SessionClock: raw offsets up to this one continue the session past midnight
ContinuationCutoffSecs == 18000

NoDay == 0

Days == 1..MaxDay

Instruments == {"ag", "au", "IF", "nq", "xx"}

\* QTime(h, m, s) as milliseconds since the start of the day
QTime(h, m, s) == ((h * 60 + m) * 60 + s) * 1000

msecsSinceStartOfDay(t) == t

\* QTime::addSecs wraps around midnight
addSecs(t, s) == (t + s * 1000) % MSecsPerDay

(***************************************************************************)
(* Session-table collaborator (market_info): per instrument the ordered    *)
(* list of SessionRanges <<start, end>>, and the session-close times.      *)
(* "ag" and "au" share one table with a session that crosses midnight;     *)
(* the session of "nq" closes in the last minute of the day; "xx" has no   *)
(* session table.                                                          *)
(***************************************************************************)
getTradingTimeRanges(instrumentID) ==
    CASE instrumentID = "ag" -> << <<QTime(9, 0, 0), QTime(15, 0, 0)>>,
                                    <<QTime(21, 0, 0), QTime(2, 30, 0)>> >>
      [] instrumentID = "au" -> << <<QTime(9, 0, 0), QTime(15, 0, 0)>>,
                                    <<QTime(21, 0, 0), QTime(2, 30, 0)>> >>
      [] instrumentID = "IF" -> << <<QTime(9, 30, 0), QTime(15, 15, 0)>> >>
      [] instrumentID = "nq" -> << <<QTime(21, 0, 0), QTime(23, 59, 30)>> >>
      [] OTHER -> << >>

getEndPoints(instrumentID) ==
    [k \in 1..Len(getTradingTimeRanges(instrumentID)) |->
        getTradingTimeRanges(instrumentID)[k][2]]

(***************************************************************************)
(* Feed collaborator: UpdateTime "HH:MM:SS" as <<h, m, s>>.                *)
(***************************************************************************)
hhmmssToSec(hms) == hms[1] * 3600 + hms[2] * 60 + hms[3]

(***************************************************************************)
(* SessionClock (TimeMapper).  mapDay is the day given to setTradingDay.   *)
(***************************************************************************)
dateToUtcTimestamp(day) == day * SecsPerDay

mapTime(mapDay, inTime) ==
    IF inTime <= ContinuationCutoffSecs
        THEN dateToUtcTimestamp(mapDay) + SecsPerDay + inTime
        ELSE dateToUtcTimestamp(mapDay) + inTime

(***************************************************************************)
(* SessionValidator (TimeValidator): the sorted boundaries and the last    *)
(* accepted final timestamp.  validate returns 0 for a rejected tick.      *)
(***************************************************************************)
NewTimeValidator(times) == [timePoints |-> times, latestTime |-> 0]

InSession(times, mappedSeconds) ==
    \E k \in 1..(Len(times) \div 2) :
        times[2 * k - 1] <= mappedSeconds /\ mappedSeconds < times[2 * k]

FinalTimestamp(mappedSeconds, msec) == mappedSeconds * 1000 + msec

validate(validator, mappedSeconds, msec) ==
    IF \/ Len(validator.timePoints) = 0
       \/ ~InSession(validator.timePoints, mappedSeconds)
       \/ FinalTimestamp(mappedSeconds, msec) <= validator.latestTime
        THEN [ret |-> 0, validator |-> validator]
        ELSE [ret |-> FinalTimestamp(mappedSeconds, msec),
              validator |-> [validator EXCEPT
                                !.latestTime = FinalTimestamp(mappedSeconds, msec)]]

(***************************************************************************)
(* setupTimeValidators: boundaries of one instrument, range by range; a    *)
(* range whose mapped start is below earliestTime is left out as a whole.  *)
(***************************************************************************)
\* variant: the end of a range taken on the day itself, not through mapTime
RangeTimesEndSameDay(range, mapDay, earliest) ==
    LET rangeStart == mapTime(mapDay, msecsSinceStartOfDay(range[1]) \div 1000)
    IN  IF rangeStart >= earliest
            THEN <<rangeStart,
                   dateToUtcTimestamp(mapDay) + msecsSinceStartOfDay(range[2]) \div 1000>>
            ELSE << >>

\* variant: only the start of a range below earliestTime is left out
RangeTimesEndKept(range, mapDay, earliest) ==
    LET rangeStart == mapTime(mapDay, msecsSinceStartOfDay(range[1]) \div 1000)
        rangeEnd == mapTime(mapDay, msecsSinceStartOfDay(range[2]) \div 1000)
    IN  IF rangeStart >= earliest THEN <<rangeStart, rangeEnd>> ELSE <<rangeEnd>>

RangeTimes(range, mapDay, earliest) ==
    LET rangeStart == mapTime(mapDay, msecsSinceStartOfDay(range[1]) \div 1000)
    IN  IF rangeStart >= earliest
            THEN <<rangeStart, mapTime(mapDay, msecsSinceStartOfDay(range[2]) \div 1000)>>
            ELSE << >>

RECURSIVE CollectTimes(_, _, _)
CollectTimes(ranges, mapDay, earliest) ==
    IF ranges = << >>
        THEN << >>
        ELSE RangeTimes(Head(ranges), mapDay, earliest)
                \o CollectTimes(Tail(ranges), mapDay, earliest)

ValidatorTimes(instrumentID, mapDay, earliest) ==
    SortSeq(CollectTimes(getTradingTimeRanges(instrumentID), mapDay, earliest),
            LAMBDA x, y : x < y)

setupTimeValidators(subs, mapDay, earliest) ==
    LET times == [i \in subs |-> ValidatorTimes(i, mapDay, earliest)]
    IN  [instrumentID \in {i \in subs : times[i] # << >>} |->
            NewTimeValidator(times[instrumentID])]

(***************************************************************************)
(* setupTimers: endPointsMap groups the subscribed instruments by session  *)
(* close; its sorted keys give instrumentsToProcess and, 60 s later each,  *)
(* the time points of the timer.  A group is a set: the close times of one *)
(* instrument are distinct, so no instrument is listed twice in a group.   *)
(***************************************************************************)
SeqRange(s) == {s[k] : k \in 1..Len(s)}

EndPointKeys(subs) == UNION {SeqRange(getEndPoints(i)) : i \in subs}

EndPointsMap(subs) ==
    [t \in EndPointKeys(subs) |-> {i \in subs : t \in SeqRange(getEndPoints(i))}]

RECURSIVE SortedKeys(_)
SortedKeys(S) ==
    IF S = {}
        THEN << >>
        ELSE LET least == CHOOSE x \in S : \A y \in S : x <= y
             IN  <<least>> \o SortedKeys(S \ {least})

\* variant: the groups listed from the latest close to the earliest
InstrumentsToProcessReversed(subs) ==
    LET keys == SortedKeys(EndPointKeys(subs))
        endPointsMap == EndPointsMap(subs)
    IN  [k \in 1..Len(keys) |-> endPointsMap[keys[Len(keys) + 1 - k]]]

InstrumentsToProcess(subs) ==
    LET keys == SortedKeys(EndPointKeys(subs))
        endPointsMap == EndPointsMap(subs)
    IN  [k \in 1..Len(keys) |-> endPointsMap[keys[k]]]

SaveBarTimePoints(subs) ==
    LET keys == SortedKeys(EndPointKeys(subs))
    IN  [k \in 1..Len(keys) |-> addSecs(keys[k], SaveDelaySecs)]

\* variant: instrumentsToProcess.clear() left out
GroupsKept(groups) == groups

\* instrumentsToProcess.clear(), before the groups are appended
ClearedGroups(groups) == << >>

\* variant: the timer built before stays connected
StillConnected(timers) == timers

\* disconnect(multiTimer, ...); delete multiTimer: no timer stays connected
Disconnected(timers) == << >>

(***************************************************************************)
(* MultipleTimer: armed with a list of time points; a firing at the k-th   *)
(* point of the list (counted from 0) delivers timesUp(k).                 *)
(***************************************************************************)
NullTimer == [armed |-> FALSE, timePoints |-> << >>]

NewMultipleTimer(timePoints) == [armed |-> TRUE, timePoints |-> timePoints]

TimerIndexes(timer) == IF timer.armed THEN 0..(Len(timer.timePoints) - 1) ELSE {}

(***************************************************************************)
(* State.                                                                  *)
(***************************************************************************)
VARIABLES
    saveDepthMarketData,    \* persistence enabled (fixed at construction)
    loggedIn,
    currentTradingDay,      \* NoDay until the first login success
    mapDay,                 \* mapTime's trading day (setTradingDay)
    earliestTime,           \* EarliestAcceptableTime
    subscribeSet,
    timeValidators,         \* instrumentID -> TimeValidator
    instrumentsToProcess,   \* one instrument group per time point
    multiTimer,
    connected,              \* the timers whose timesUp signal reaches timesUp()
    subscribedMarketData,   \* instruments requested from the feed since the last login
    depthMarketDataListMap, \* instrumentID -> buffered ticks
    newMarketData,          \* history: per instrument the timestamps emitted
    flushed,                \* history: per instrument the buffers emptied
    lastEvent               \* history: the event handled last, with its inputs

vars == <<saveDepthMarketData, loggedIn, currentTradingDay, mapDay, earliestTime,
          subscribeSet, timeValidators, instrumentsToProcess, multiTimer, connected,
          subscribedMarketData, depthMarketDataListMap, newMarketData, flushed,
          lastEvent>>

(***************************************************************************)
(* A buffered tick is named by its position among the notifications of its *)
(* instrument: the k-th accepted tick of an instrument is tick k.          *)
(***************************************************************************)
RECURSIVE SumLen(_, _)
SumLen(f, S) ==
    IF S = {}
        THEN 0
        ELSE LET i == CHOOSE x \in S : TRUE
             IN  Len(f[i]) + SumLen(f, S \ {i})

Accepted == SumLen(newMarketData, Instruments)

\* SubscribeList of the configuration file
SubscribeLists == { {"ag"} }

\* arguments of subscribeInstruments
SubscribeRequests == { {"IF"}, {"au", "IF"} }

\* the state after the constructor, for the SubscribeList and SaveDepthMarketData
\* settings given
InitOver(lists, saves) ==
    /\ saveDepthMarketData \in saves
    /\ loggedIn = FALSE
    /\ currentTradingDay = NoDay
    /\ mapDay = NoDay
    /\ earliestTime = 0
    /\ subscribeSet \in lists
    /\ timeValidators = << >>
    /\ instrumentsToProcess =
            IF saveDepthMarketData THEN InstrumentsToProcess(subscribeSet) ELSE << >>
    /\ multiTimer =
            IF saveDepthMarketData
                THEN NewMultipleTimer(SaveBarTimePoints(subscribeSet))
                ELSE NullTimer
    /\ connected = IF saveDepthMarketData THEN <<multiTimer>> ELSE << >>
    /\ subscribedMarketData = {}
    /\ depthMarketDataListMap = [i \in Instruments |-> << >>]
    /\ newMarketData = [i \in Instruments |-> << >>]
    /\ flushed = [i \in Instruments |-> << >>]
    /\ lastEvent = [op |-> "init"]

\* the tick filter does not read saveDepthMarketData: persistence enabled, so that
\* the timer tables exist and the accepted ticks are buffered
Init == InitOver(SubscribeLists, {TRUE})

InitSave == InitOver(SubscribeLists, BOOLEAN)

(***************************************************************************)
(* customEvent, RSP_USER_LOGIN.  The feed reports trading days that never  *)
(* go back.  On a day change: setTradingDay, setupTimeValidators.          *)
(***************************************************************************)
\* variant: only the first login success counts as a change of trading day
TradingDayDiffersFirstOnly(recorded, tradingDay) == recorded = NoDay

\* variant: every login success counts as a change of trading day
TradingDayDiffersAlways(recorded, tradingDay) == TRUE

\* if (currentTradingDay != tradingDay)
TradingDayDiffers(recorded, tradingDay) == recorded # tradingDay

\* the trading days in force at the calls of mapTime made by setupTimeValidators
MapperDays(subs, day) ==
    IF \E i \in subs : getTradingTimeRanges(i) # << >> THEN {day} ELSE {}

\* variant: the validators are built before the mapper is given the trading day
LoginCallsValidatorsFirst(differs) ==
    IF differs
        THEN <<"tradingDayChanged", "setupTimeValidators", "setTradingDay", "subscribe">>
        ELSE <<"subscribe">>

\* the calls of the handler, in the order of lines 175 - 182
LoginCalls(differs) ==
    IF differs
        THEN <<"tradingDayChanged", "setTradingDay", "setupTimeValidators", "subscribe">>
        ELSE <<"subscribe">>

\* one call of the handler, on the fields it reads and writes
Call(name, st, tradingDay) ==
    CASE name = "setTradingDay" -> [st EXCEPT !.mapDay = tradingDay]
      [] name = "setupTimeValidators" ->
            [st EXCEPT !.timeValidators =
                            setupTimeValidators(subscribeSet, st.mapDay, earliestTime),
                       !.mapDays = @ \cup MapperDays(subscribeSet, st.mapDay)]
      [] name = "subscribe" -> [st EXCEPT !.subscribedMarketData = @ \cup subscribeSet]
      [] OTHER -> st

RECURSIVE Run(_, _, _)
Run(calls, st, tradingDay) ==
    IF calls = << >>
        THEN st
        ELSE Run(Tail(calls), Call(Head(calls), st, tradingDay), tradingDay)

RspUserLogin(tradingDay) ==
    LET differs == TradingDayDiffers(currentTradingDay, tradingDay)
        calls == LoginCalls(differs)
        st == Run(calls,
                  [mapDay |-> mapDay, timeValidators |-> timeValidators,
                   subscribedMarketData |-> {}, mapDays |-> {}],
                  tradingDay)
    IN  /\ tradingDay >= currentTradingDay
        /\ loggedIn' = TRUE
        /\ mapDay' = st.mapDay
        /\ timeValidators' = st.timeValidators
        /\ subscribedMarketData' = st.subscribedMarketData
        /\ currentTradingDay' = IF differs THEN tradingDay ELSE currentTradingDay
        /\ lastEvent' = [op |-> "login", tradingDay |-> tradingDay, calls |-> calls,
                         mapDays |-> st.mapDays,
                         reconnected |-> lastEvent.op = "disconnect"]
        /\ UNCHANGED <<saveDepthMarketData, earliestTime, subscribeSet,
                       instrumentsToProcess, multiTimer, connected,
                       depthMarketDataListMap, newMarketData, flushed>>

(***************************************************************************)
(* customEvent, FRONT_DISCONNECTED.                                        *)
(***************************************************************************)
FrontDisconnected ==
    /\ loggedIn' = FALSE
    /\ lastEvent' = [op |-> "disconnect"]
    /\ UNCHANGED <<saveDepthMarketData, currentTradingDay, mapDay, earliestTime,
                   subscribeSet, timeValidators, instrumentsToProcess, multiTimer,
                   connected, subscribedMarketData, depthMarketDataListMap,
                   newMarketData, flushed>>

(***************************************************************************)
(* processDepthMarketData (customEvent, DEPTH_MARKET_DATA).                *)
(***************************************************************************)
\* variant: the time of the tick taken on the day itself, not through mapTime
TickTimeSameDay(day, time) == dateToUtcTimestamp(day) + time

\* the time given to the validator: mapTime(time)
TickTime(day, time) == mapTime(day, time)

\* variant: if (mappedTime >= 0)
IsAcceptedOrZero(mappedTime) == mappedTime >= 0

\* if (mappedTime > 0): the tick is emitted and, if enabled, buffered
IsAccepted(mappedTime) == mappedTime > 0

\* variant: validate called on a copy that has lost the last accepted timestamp
ValidatedOnCopy(validators, day, instrumentID, hms, msec) ==
    IF instrumentID \in DOMAIN validators
        THEN validate(NewTimeValidator(validators[instrumentID].timePoints),
                      mapTime(day, hhmmssToSec(hms)), msec) @@ [mapDays |-> {day}]
        ELSE [ret |-> 0, mapDays |-> {}]

\* variant: no test of pValidator, the tick of an instrument without validator
\* is mapped and passes
ValidatedWithoutTable(validators, day, instrumentID, hms, msec) ==
    IF instrumentID \in DOMAIN validators
        THEN validate(validators[instrumentID], mapTime(day, hhmmssToSec(hms)), msec)
                @@ [mapDays |-> {day}]
        ELSE [ret |-> FinalTimestamp(mapTime(day, hhmmssToSec(hms)), msec),
              mapDays |-> {day}]

\* mappedTime = 0, or pValidator->validate(mapTime(time), UpdateMillisec);
\* mapDays: the trading day in force at the call of mapTime, if it is called
Validated(validators, day, instrumentID, hms, msec) ==
    IF instrumentID \in DOMAIN validators
        THEN validate(validators[instrumentID], TickTime(day, hhmmssToSec(hms)), msec)
                @@ [mapDays |-> {day}]
        ELSE [ret |-> 0, mapDays |-> {}]

DepthMarketData(instrumentID, hms, msec) ==
    LET res == Validated(timeValidators, mapDay, instrumentID, hms, msec)
        mappedTime == res.ret
    IN  /\ Accepted < MaxAccepted
        /\ timeValidators' =
                IF instrumentID \in DOMAIN timeValidators
                    THEN [timeValidators EXCEPT ![instrumentID] = res.validator]
                    ELSE timeValidators
        /\ IF IsAccepted(mappedTime)
            THEN /\ newMarketData' =
                        [newMarketData EXCEPT ![instrumentID] = Append(@, mappedTime)]
                 /\ depthMarketDataListMap' =
                        IF saveDepthMarketData
                            THEN [depthMarketDataListMap EXCEPT ![instrumentID] =
                                    Append(@, Len(newMarketData[instrumentID]) + 1)]
                            ELSE depthMarketDataListMap
            ELSE UNCHANGED <<newMarketData, depthMarketDataListMap>>
        /\ lastEvent' = [op |-> "tick", instrumentID |-> instrumentID, hms |-> hms,
                         msec |-> msec, mappedTime |-> mappedTime,
                         mapDays |-> res.mapDays]
        /\ UNCHANGED <<saveDepthMarketData, loggedIn, currentTradingDay, mapDay,
                       earliestTime, subscribeSet, instrumentsToProcess, multiTimer,
                       connected, subscribedMarketData, flushed>>

(***************************************************************************)
(* timesUp(index).  The trading calendar and the clock are inputs:         *)
(* isTradingDay(today), isTradingDay(today - 1), nextTradingDay(today) =   *)
(* today + 2, QTime::currentTime().                                        *)
(***************************************************************************)
IsNormalSaturday(yesterdayTrading, nextInTwoDays) == yesterdayTrading /\ nextInTwoDays

\* variant: currentTime() >= QTime(5, 0)
DiscardsFromCutoff(todayTrading, yesterdayTrading, nextInTwoDays, now) ==
    /\ ~todayTrading
    /\ \/ ~(yesterdayTrading /\ nextInTwoDays)
       \/ now >= QTime(SettlementCutoffHour, 0, 0)

Discards(todayTrading, yesterdayTrading, nextInTwoDays, now) ==
    /\ ~todayTrading
    /\ \/ ~IsNormalSaturday(yesterdayTrading, nextInTwoDays)
       \/ now > QTime(SettlementCutoffHour, 0, 0)

\* variant: only the buffers of the group are dropped
ClearedGroupOnly(group) == group

\* depthMarketDataListMap.clear(): the instruments whose buffers are dropped
ClearedInstruments(group) == Instruments

\* the loop over instrumentsToProcess[index]: the instruments whose file is written
WrittenInstruments(map, group) == {i \in group : map[i] # << >>}

\* variant: the buffer is kept after the file is written
BufferKept(list) == list

\* depthMarketDataList.clear() after the file is written
BufferAfterWrite(list) == << >>

\* instrumentsToProcess[index]: the groups the handler may read; an index outside
\* the list is undefined behaviour and may read any group
FiredGroups(groups, index) ==
    IF index + 1 \in DOMAIN groups THEN {groups[index + 1]} ELSE SUBSET Instruments

TimesUp(index, todayTrading, yesterdayTrading, nextInTwoDays, now) ==
    \E group \in FiredGroups(instrumentsToProcess, index) :
        LET discard == Discards(todayTrading, yesterdayTrading, nextInTwoDays, now)
            written == IF discard THEN {}
                                  ELSE WrittenInstruments(depthMarketDataListMap, group)
            dropped == IF discard THEN ClearedInstruments(group) ELSE {}
        IN  /\ \E c \in 1..Len(connected) : index \in TimerIndexes(connected[c])
            /\ depthMarketDataListMap' =
                    [i \in Instruments |->
                        IF i \in dropped THEN << >>
                        ELSE IF i \in written
                            THEN BufferAfterWrite(depthMarketDataListMap[i])
                        ELSE depthMarketDataListMap[i]]
            /\ flushed' =
                    [i \in Instruments |->
                        IF i \in written
                            THEN Append(flushed[i], [saved |-> TRUE,
                                                     ticks |-> depthMarketDataListMap[i]])
                        ELSE IF i \in dropped /\ depthMarketDataListMap[i] # << >>
                            THEN Append(flushed[i], [saved |-> FALSE,
                                                     ticks |-> depthMarketDataListMap[i]])
                        ELSE flushed[i]]
            /\ lastEvent' = [op |-> "timesUp", index |-> index,
                             todayTrading |-> todayTrading,
                             yesterdayTrading |-> yesterdayTrading,
                             nextInTwoDays |-> nextInTwoDays,
                             now |-> now,
                             written |-> written]
            /\ UNCHANGED <<saveDepthMarketData, loggedIn, currentTradingDay, mapDay,
                           earliestTime, subscribeSet, timeValidators,
                           instrumentsToProcess, multiTimer, connected,
                           subscribedMarketData, newMarketData>>

(***************************************************************************)
(* subscribeInstruments(instruments, updateIni).                           *)
(***************************************************************************)
\* if (loggedIn) setupTimeValidators();
RebuildsValidators(isLoggedIn) == isLoggedIn

\* variant: no request is sent for the instruments added
RequestsSentNever(isLoggedIn, instruments) == {}

\* if (loggedIn) pUserApi->SubscribeMarketData(ppInstrumentID, num);
RequestsSent(isLoggedIn, instruments) == IF isLoggedIn THEN instruments ELSE {}

SubscribeInstruments(instruments) ==
    /\ subscribeSet' = subscribeSet \cup instruments
    /\ subscribedMarketData' =
            subscribedMarketData \cup RequestsSent(loggedIn, instruments)
    /\ IF saveDepthMarketData
        THEN /\ instrumentsToProcess' =
                    ClearedGroups(instrumentsToProcess) \o InstrumentsToProcess(subscribeSet')
             /\ multiTimer' = NewMultipleTimer(SaveBarTimePoints(subscribeSet'))
             /\ connected' = Append(Disconnected(connected), multiTimer')
        ELSE UNCHANGED <<instrumentsToProcess, multiTimer, connected>>
    /\ IF RebuildsValidators(loggedIn)
        THEN timeValidators' = setupTimeValidators(subscribeSet', mapDay, earliestTime)
        ELSE UNCHANGED timeValidators
    /\ lastEvent' = [op |-> "subscribeInstruments", instruments |-> instruments,
                     repeated |-> /\ lastEvent.op = "subscribeInstruments"
                                  /\ lastEvent.instruments = instruments,
                     mapDays |-> IF RebuildsValidators(loggedIn)
                                    THEN MapperDays(subscribeSet', mapDay)
                                    ELSE {}]
    /\ UNCHANGED <<saveDepthMarketData, loggedIn, currentTradingDay, mapDay,
                   earliestTime, depthMarketDataListMap, newMarketData, flushed>>

(***************************************************************************)
(* setWeekend: nextTradingday is nextTradingDay(QDate::currentDate()).     *)
(***************************************************************************)
SetWeekend(nextTradingday) ==
    /\ earliestTime' = dateToUtcTimestamp(nextTradingday) + WeekendOffsetHours * 3600
    /\ lastEvent' = [op |-> "setWeekend", nextTradingday |-> nextTradingday]
    /\ UNCHANGED <<saveDepthMarketData, loggedIn, currentTradingDay, mapDay,
                   subscribeSet, timeValidators, instrumentsToProcess, multiTimer,
                   connected, subscribedMarketData, depthMarketDataListMap,
                   newMarketData, flushed>>

(***************************************************************************)
(* Spec: the events of the feed and of the subscribers.  The ticks are     *)
(* <<instrumentID, UpdateTime, UpdateMillisec>>: inside, at the end of,    *)
(* between and before the sessions of the instrument.                      *)
(***************************************************************************)
FilterTicks ==
    ({"ag"} \X { <<9, 0, 0>>, <<15, 0, 0>> } \X {0, 999})
        \cup ({"ag"} \X { <<17, 0, 0>> } \X {999})
        \cup ({"ag"} \X { <<23, 0, 0>>, <<1, 0, 0>> } \X {0})
        \cup ({"IF"} \X { <<9, 0, 0>>, <<15, 0, 0>> } \X {0})

Next ==
    \/ \E tradingDay \in Days : RspUserLogin(tradingDay)
    \/ FrontDisconnected
    \/ \E tick \in FilterTicks : DepthMarketData(tick[1], tick[2], tick[3])
    \/ \E instruments \in SubscribeRequests : SubscribeInstruments(instruments)
    \/ SetWeekend(MaxDay)

Spec == Init /\ [][Next]_vars

(***************************************************************************)
(* SpecSave: the events of the feed, of the subscribers and of the timer.  *)
(* The firings are <<isTradingDay(today), isTradingDay(today - 1),         *)
(* nextTradingDay(today) = today + 2, now>>: on a trading day, on a        *)
(* Saturday after a trading Friday around 05:00, on other non-trading days.*)
(***************************************************************************)
\* timesUp() reads neither the trading day nor the validators: one trading day
SaveDays == {1}

SaveTicks ==
    ({"ag"} \X { <<9, 0, 0>> } \X {0, 999}) \cup ({"IF"} \X { <<15, 0, 0>> } \X {0})

SaveFirings ==
    { <<TRUE, TRUE, FALSE, QTime(15, 1, 0)>> }
        \cup { <<FALSE, TRUE, TRUE, now>> :
                    now \in { QTime(SettlementCutoffHour, 0, 0) - 1,
                              QTime(SettlementCutoffHour, 0, 0),
                              QTime(SettlementCutoffHour, 0, 0) + 1 } }
        \cup { <<FALSE, FALSE, TRUE, QTime(SettlementCutoffHour, 0, 0) - 1>>,
               <<FALSE, TRUE, FALSE, QTime(SettlementCutoffHour, 0, 0) - 1>> }

NextSave ==
    \/ \E tradingDay \in SaveDays : RspUserLogin(tradingDay)
    \/ FrontDisconnected
    \/ \E tick \in SaveTicks : DepthMarketData(tick[1], tick[2], tick[3])
    \/ \E index \in 0..(Cardinality(EndPointKeys(Instruments)) - 1), firing \in SaveFirings :
            TimesUp(index, firing[1], firing[2], firing[3], firing[4])
    \/ \E instruments \in SubscribeRequests : SubscribeInstruments(instruments)

SpecSave == InitSave /\ [][NextSave]_vars

(***************************************************************************)
(* SpecTables: the tables built for instruments whose session closes in    *)
(* the last minute of the day ("nq") or that have no session table ("xx"), *)
(* the ticks of such instruments and the firings of the timer.             *)
(***************************************************************************)
TableLists == { {"ag"}, {"xx"} }

TableRequests == { {"nq"}, {"xx"}, {"IF", "xx"} }

TableTicks ==
    ({"xx", "ag", "IF"} \X { <<9, 0, 0>> } \X {0}) \cup ({"nq"} \X { <<22, 0, 0>> } \X {0})

TableFirings ==
    { <<TRUE, TRUE, FALSE, QTime(15, 1, 0)>>,
      <<FALSE, FALSE, TRUE, QTime(15, 1, 0)>> }

InitTables == InitOver(TableLists, BOOLEAN)

NextTables ==
    \/ \E tradingDay \in SaveDays : RspUserLogin(tradingDay)
    \/ FrontDisconnected
    \/ \E tick \in TableTicks : DepthMarketData(tick[1], tick[2], tick[3])
    \/ \E index \in 0..(Cardinality(EndPointKeys(Instruments)) - 1), firing \in TableFirings :
            TimesUp(index, firing[1], firing[2], firing[3], firing[4])
    \/ \E instruments \in TableRequests : SubscribeInstruments(instruments)
    \/ SetWeekend(MaxDay)

SpecTables == InitTables /\ [][NextTables]_vars

(***************************************************************************)
(* Vocabulary of the properties.                                           *)
(***************************************************************************)
\* the event handled by the step is a tick for an instrument that has a validator
TickStep == lastEvent'.op = "tick" /\ lastEvent'.instrumentID \in DOMAIN timeValidators

\* mapped time and final timestamp of a tick event, on the current trading day
MappedSeconds(ev) == mapTime(mapDay, hhmmssToSec(ev.hms))

TickTimestamp(ev) == MappedSeconds(ev) * 1000 + ev.msec

\* the step neither notifies the observers nor appends to a buffer
NothingEmitted ==
    /\ newMarketData' = newMarketData
    /\ depthMarketDataListMap' = depthMarketDataListMap

\* the step notifies the observers of instrument i with timestamp ts
Emitted(i, ts) == newMarketData' = [newMarketData EXCEPT ![i] = Append(@, ts)]

\* a raw time of day lies inside a SessionRange (which may cross midnight)
InRange(range, secs) ==
    LET start == msecsSinceStartOfDay(range[1]) \div 1000
        end == msecsSinceStartOfDay(range[2]) \div 1000
    IN  IF start <= end
            THEN start <= secs /\ secs < end
            ELSE start <= secs \/ secs < end

\* the validator holds the mapped boundaries of the range as one of its pairs
Retained(validator, range) ==
    \E k \in 1..(Len(validator.timePoints) \div 2) :
        /\ validator.timePoints[2 * k - 1] =
                mapTime(mapDay, msecsSinceStartOfDay(range[1]) \div 1000)
        /\ validator.timePoints[2 * k] =
                mapTime(mapDay, msecsSinceStartOfDay(range[2]) \div 1000)

(***************************************************************************)
(* C1: the timestamps of the successive notifications of one instrument    *)
(* are strictly increasing.                                                *)
(***************************************************************************)
C1_StrictlyIncreasing ==
    \A i \in Instruments :
        \A k \in 1..(Len(newMarketData[i]) - 1) :
            newMarketData[i][k] < newMarketData[i][k + 1]

(***************************************************************************)
(* C2: a tick whose mapped time is outside every [start, end) pair of its  *)
(* instrument's validator is rejected whatever its millisecond: nothing    *)
(* is emitted and nothing is buffered.                                     *)
(***************************************************************************)
C2_OutOfSessionRejected ==
    [][(/\ TickStep
        /\ ~InSession(timeValidators[lastEvent'.instrumentID].timePoints,
                      MappedSeconds(lastEvent')))
            => NothingEmitted]_vars

\* a tick between the day and the night session of "ag", millisecond 999, was rejected
C2_Witness ==
    /\ lastEvent.op = "tick"
    /\ lastEvent.instrumentID = "ag"
    /\ lastEvent.hms = <<17, 0, 0>>
    /\ lastEvent.msec = 999
    /\ lastEvent.mappedTime = 0
    /\ "ag" \in DOMAIN timeValidators
    /\ Len(timeValidators["ag"].timePoints) = 4
    /\ timeValidators["ag"].timePoints[2] < MappedSeconds(lastEvent)
    /\ MappedSeconds(lastEvent) < timeValidators["ag"].timePoints[3]

(***************************************************************************)
(* C3: a tick whose final timestamp is not greater than the last accepted  *)
(* timestamp of its validator is rejected and leaves the validator as it   *)
(* was; an accepted tick becomes the last accepted one, so that the same   *)
(* tick delivered again is rejected.                                       *)
(***************************************************************************)
C3_NotLaterRejected ==
    [][TickStep =>
        LET i == lastEvent'.instrumentID
        IN  /\ TickTimestamp(lastEvent') <= timeValidators[i].latestTime
                => NothingEmitted /\ timeValidators' = timeValidators
            /\ newMarketData' # newMarketData
                => /\ Emitted(i, TickTimestamp(lastEvent'))
                   /\ timeValidators'[i].latestTime = TickTimestamp(lastEvent')]_vars

\* the tick accepted first was delivered again and rejected
C3_Witness ==
    /\ lastEvent.op = "tick"
    /\ lastEvent.mappedTime = 0
    /\ lastEvent.instrumentID \in DOMAIN timeValidators
    /\ timeValidators[lastEvent.instrumentID].latestTime = TickTimestamp(lastEvent)
    /\ newMarketData[lastEvent.instrumentID] = <<TickTimestamp(lastEvent)>>

(***************************************************************************)
(* C4, as claimed: a tick that follows an accepted tick of its instrument  *)
(* with a greater raw (time, millisecond) pair, inside the same            *)
(* SessionRange, is accepted with a greater final timestamp.               *)
(***************************************************************************)
RawLess(ev1, ev2) ==
    \/ hhmmssToSec(ev1.hms) < hhmmssToSec(ev2.hms)
    \/ hhmmssToSec(ev1.hms) = hhmmssToSec(ev2.hms) /\ ev1.msec < ev2.msec

SameRange(i, ev1, ev2) ==
    \E k \in 1..Len(getTradingTimeRanges(i)) :
        /\ InRange(getTradingTimeRanges(i)[k], hhmmssToSec(ev1.hms))
        /\ InRange(getTradingTimeRanges(i)[k], hhmmssToSec(ev2.hms))

C4_RawOrderAccepted ==
    [][(/\ TickStep
        /\ lastEvent.op = "tick"
        /\ lastEvent.instrumentID = lastEvent'.instrumentID
        /\ lastEvent.mappedTime > 0
        /\ RawLess(lastEvent, lastEvent')
        /\ SameRange(lastEvent'.instrumentID, lastEvent, lastEvent'))
            => /\ Emitted(lastEvent'.instrumentID, TickTimestamp(lastEvent'))
               /\ lastEvent.mappedTime < TickTimestamp(lastEvent')]_vars

(***************************************************************************)
(* C4, amended: a tick inside a SessionRange that its instrument's         *)
(* validator retains, with a final timestamp (mapped time and millisecond) *)
(* greater than the last accepted one of that validator, is accepted with  *)
(* that timestamp and becomes the last accepted one.                       *)
(***************************************************************************)
C4_MappedOrderAccepted ==
    [][(/\ TickStep
        /\ \E k \in 1..Len(getTradingTimeRanges(lastEvent'.instrumentID)) :
              /\ InRange(getTradingTimeRanges(lastEvent'.instrumentID)[k],
                         hhmmssToSec(lastEvent'.hms))
              /\ Retained(timeValidators[lastEvent'.instrumentID],
                          getTradingTimeRanges(lastEvent'.instrumentID)[k])
        /\ TickTimestamp(lastEvent') > timeValidators[lastEvent'.instrumentID].latestTime)
            => /\ Emitted(lastEvent'.instrumentID, TickTimestamp(lastEvent'))
               /\ timeValidators'[lastEvent'.instrumentID].latestTime =
                        TickTimestamp(lastEvent')
               /\ saveDepthMarketData =>
                    depthMarketDataListMap'[lastEvent'.instrumentID] =
                        Append(depthMarketDataListMap[lastEvent'.instrumentID],
                               Len(newMarketData'[lastEvent'.instrumentID]))]_vars

\* two ticks of the same second of the day session of "ag", both accepted
C4_Witness ==
    /\ lastEvent.op = "tick"
    /\ lastEvent.instrumentID = "ag"
    /\ lastEvent.hms = <<9, 0, 0>>
    /\ lastEvent.msec = 999
    /\ newMarketData["ag"] = <<TickTimestamp(lastEvent) - 999, TickTimestamp(lastEvent)>>

(***************************************************************************)
(* C5: a session that crosses midnight has its mapped start below its      *)
(* mapped end, and they are one pair of the validator; after an accepted   *)
(* tick at 23:00:00 a tick at 01:00:00 is accepted with a greater          *)
(* timestamp.                                                              *)
(***************************************************************************)
CrossesMidnight(range) == range[2] < range[1]

C5_BoundariesOrdered ==
    \A i \in DOMAIN timeValidators :
        \A k \in 1..Len(getTradingTimeRanges(i)) :
            LET range == getTradingTimeRanges(i)[k]
                start == mapTime(mapDay, msecsSinceStartOfDay(range[1]) \div 1000)
                end == mapTime(mapDay, msecsSinceStartOfDay(range[2]) \div 1000)
            IN  CrossesMidnight(range) =>
                    /\ start < end
                    /\ \A j \in 1..Len(timeValidators[i].timePoints) :
                            timeValidators[i].timePoints[j] = start =>
                                /\ j % 2 = 1
                                /\ timeValidators[i].timePoints[j + 1] = end

C5_AfterMidnightAccepted ==
    (/\ TickStep
     /\ lastEvent'.hms = <<1, 0, 0>>
     /\ timeValidators[lastEvent'.instrumentID].latestTime \div 1000 =
            mapTime(mapDay, hhmmssToSec(<<23, 0, 0>>))
     /\ \E k \in 1..Len(getTradingTimeRanges(lastEvent'.instrumentID)) :
            /\ CrossesMidnight(getTradingTimeRanges(lastEvent'.instrumentID)[k])
            /\ InRange(getTradingTimeRanges(lastEvent'.instrumentID)[k],
                       hhmmssToSec(<<23, 0, 0>>))
            /\ InRange(getTradingTimeRanges(lastEvent'.instrumentID)[k],
                       hhmmssToSec(<<1, 0, 0>>)))
        => /\ Emitted(lastEvent'.instrumentID, TickTimestamp(lastEvent'))
           /\ TickTimestamp(lastEvent') >
                timeValidators[lastEvent'.instrumentID].latestTime

C5_CrossMidnight == [](C5_BoundariesOrdered) /\ [][C5_AfterMidnightAccepted]_vars

\* "ag": the tick at 23:00:00 and then the tick at 01:00:00, both accepted
C5_Witness ==
    /\ lastEvent.op = "tick"
    /\ lastEvent.instrumentID = "ag"
    /\ lastEvent.hms = <<1, 0, 0>>
    /\ newMarketData["ag"] =
            <<FinalTimestamp(mapTime(mapDay, hhmmssToSec(<<23, 0, 0>>)), 0),
              TickTimestamp(lastEvent)>>
    /\ newMarketData["ag"][1] < newMarketData["ag"][2]

(***************************************************************************)
(* C6: the timer is armed with one time point per distinct session close   *)
(* of the subscribed instruments, the k-th group is the set of subscribed  *)
(* instruments closing 60 s before the k-th time point, and a firing that  *)
(* flushes writes and empties the buffers of these instruments only.       *)
(***************************************************************************)
ClosingAt(subs, close) == {i \in subs : close \in SeqRange(getEndPoints(i))}

DelayBefore(timePoint) == (timePoint + MSecsPerDay - SaveDelaySecs * 1000) % MSecsPerDay

C6_Tables ==
    saveDepthMarketData =>
        /\ multiTimer.armed
        /\ Len(multiTimer.timePoints) =
                Cardinality(UNION {SeqRange(getEndPoints(i)) : i \in subscribeSet})
        /\ Len(instrumentsToProcess) = Len(multiTimer.timePoints)
        /\ \A k \in 1..Len(multiTimer.timePoints) :
                instrumentsToProcess[k] =
                    ClosingAt(subscribeSet, DelayBefore(multiTimer.timePoints[k]))

FiringFlushes(ev) ==
    /\ ev.op = "timesUp"
    /\ ~Discards(ev.todayTrading, ev.yesterdayTrading, ev.nextInTwoDays, ev.now)

C6_Firing ==
    FiringFlushes(lastEvent') =>
        LET closing == ClosingAt(subscribeSet,
                                 DelayBefore(multiTimer.timePoints[lastEvent'.index + 1]))
        IN  /\ lastEvent'.written = {i \in closing : depthMarketDataListMap[i] # << >>}
            /\ \A i \in closing : depthMarketDataListMap'[i] = << >>
            /\ \A i \in Instruments \ closing :
                    /\ depthMarketDataListMap'[i] = depthMarketDataListMap[i]
                    /\ flushed'[i] = flushed[i]

C6_GroupsByClose == [](C6_Tables) /\ [][C6_Firing]_vars

\* three instruments, three close times; the firing for the close shared by "ag"
\* and "au" wrote the file of "ag" and left the buffer of "IF" alone
C6_Witness ==
    /\ subscribeSet = {"ag", "au", "IF"}
    /\ Len(multiTimer.timePoints) = 3
    /\ lastEvent.op = "timesUp"
    /\ instrumentsToProcess[lastEvent.index + 1] = {"ag", "au"}
    /\ lastEvent.written = {"ag"}
    /\ depthMarketDataListMap["ag"] = << >>
    /\ depthMarketDataListMap["IF"] # << >>

(***************************************************************************)
(* C7, as claimed: the file written for an instrument holds exactly the    *)
(* ticks accepted since the previous file of that instrument was written.  *)
(***************************************************************************)
RECURSIVE LastTick(_, _)
\* the last tick of the last record of recs that is of one of the kinds; 0 if none
LastTick(recs, kinds) ==
    IF recs = << >>
        THEN 0
        ELSE IF recs[Len(recs)].saved \in kinds
            THEN recs[Len(recs)].ticks[Len(recs[Len(recs)].ticks)]
            ELSE LastTick(SubSeq(recs, 1, Len(recs) - 1), kinds)

TicksAfter(i, p) == [k \in 1..(Len(newMarketData[i]) - p) |-> p + k]

C7_SinceLastFile ==
    [][lastEvent'.op = "timesUp" =>
        \A i \in lastEvent'.written :
            flushed'[i][Len(flushed'[i])].ticks =
                TicksAfter(i, LastTick(flushed[i], {TRUE}))]_vars

(***************************************************************************)
(* C7, amended: with persistence enabled the buffer of an instrument holds *)
(* in order the ticks accepted since it was last emptied, by a file        *)
(* written or by a discard; a file holds exactly the buffer; after a       *)
(* firing the buffers of the fired group are empty; the files and the      *)
(* discarded buffers together hold every tick once.                        *)
(***************************************************************************)
RECURSIVE AllTicks(_)
AllTicks(recs) ==
    IF recs = << >> THEN << >> ELSE Head(recs).ticks \o AllTicks(Tail(recs))

C7_Buffers ==
    /\ \A i \in Instruments :
        /\ saveDepthMarketData =>
                AllTicks(flushed[i]) \o depthMarketDataListMap[i] = TicksAfter(i, 0)
        /\ ~saveDepthMarketData => depthMarketDataListMap[i] = << >> /\ flushed[i] = << >>
        /\ \A k \in 1..Len(flushed[i]) : flushed[i][k].ticks # << >>
    /\ lastEvent.op = "timesUp" =>
            \A i \in instrumentsToProcess[lastEvent.index + 1] :
                depthMarketDataListMap[i] = << >>

C7_SinceLastEmptied ==
    [](C7_Buffers)
    /\ [][lastEvent'.op = "timesUp" =>
            \A i \in lastEvent'.written :
                /\ flushed'[i] = Append(flushed[i], [saved |-> TRUE,
                                                     ticks |-> depthMarketDataListMap[i]])
                /\ depthMarketDataListMap[i] =
                        TicksAfter(i, LastTick(flushed[i], {TRUE, FALSE}))]_vars

\* two accepted ticks of "ag" written by one firing, in the order of acceptance
C7_Witness ==
    /\ lastEvent.op = "timesUp"
    /\ lastEvent.written = {"ag"}
    /\ Len(newMarketData["ag"]) = 2
    /\ flushed["ag"] = <<[saved |-> TRUE, ticks |-> <<1, 2>>]>>
    /\ depthMarketDataListMap["ag"] = << >>

(***************************************************************************)
(* C8: a firing on a non-trading day that is not a Saturday after a        *)
(* trading Friday with the next trading day on Monday, or that comes after *)
(* 05:00, empties the buffers of all instruments and writes no file.       *)
(***************************************************************************)
NoAllowance(ev) ==
    /\ ev.op = "timesUp"
    /\ ~ev.todayTrading
    /\ \/ ~(ev.yesterdayTrading /\ ev.nextInTwoDays)
       \/ ev.now > QTime(SettlementCutoffHour, 0, 0)

C8_DiscardsAll ==
    [][NoAllowance(lastEvent') =>
        /\ lastEvent'.written = {}
        /\ \A i \in Instruments :
            /\ depthMarketDataListMap'[i] = << >>
            /\ flushed'[i] =
                    IF depthMarketDataListMap[i] = << >>
                        THEN flushed[i]
                        ELSE Append(flushed[i], [saved |-> FALSE,
                                                 ticks |-> depthMarketDataListMap[i]])]_vars

\* a firing on a non-trading day dropped the buffer of an instrument outside the group
C8_Witness ==
    /\ NoAllowance(lastEvent)
    /\ \E i \in subscribeSet \ instrumentsToProcess[lastEvent.index + 1] :
            /\ Len(newMarketData[i]) = 1
            /\ flushed[i] = <<[saved |-> FALSE, ticks |-> <<1>>]>>
    /\ \A i \in Instruments : depthMarketDataListMap[i] = << >>

(***************************************************************************)
(* C9, as claimed: on a Saturday after a trading Friday, with the next     *)
(* trading day on Monday, a firing writes files only before 05:00 and      *)
(* discards the buffers from 05:00 on.                                     *)
(***************************************************************************)
NormalSaturday(ev) ==
    /\ ev.op = "timesUp"
    /\ ~ev.todayTrading
    /\ ev.yesterdayTrading
    /\ ev.nextInTwoDays

BuffersDiscarded ==
    /\ lastEvent'.written = {}
    /\ \A i \in Instruments : depthMarketDataListMap'[i] = << >>

GroupFlushed ==
    LET group == instrumentsToProcess[lastEvent'.index + 1]
    IN  /\ lastEvent'.written = {i \in group : depthMarketDataListMap[i] # << >>}
        /\ \A i \in Instruments \ group :
                depthMarketDataListMap'[i] = depthMarketDataListMap[i]

C9_OnlyBeforeCutoff ==
    [][NormalSaturday(lastEvent') =>
        /\ lastEvent'.written # {} => lastEvent'.now < QTime(SettlementCutoffHour, 0, 0)
        /\ lastEvent'.now < QTime(SettlementCutoffHour, 0, 0) => GroupFlushed
        /\ lastEvent'.now >= QTime(SettlementCutoffHour, 0, 0) => BuffersDiscarded]_vars

(***************************************************************************)
(* C9, amended: such a firing writes the files of the fired group when the *)
(* local time is not after 05:00:00.000, and discards all buffers when it  *)
(* is after.                                                               *)
(***************************************************************************)
C9_NotAfterCutoff ==
    [][NormalSaturday(lastEvent') =>
        /\ lastEvent'.written # {} => lastEvent'.now <= QTime(SettlementCutoffHour, 0, 0)
        /\ lastEvent'.now <= QTime(SettlementCutoffHour, 0, 0) => GroupFlushed
        /\ lastEvent'.now > QTime(SettlementCutoffHour, 0, 0) => BuffersDiscarded]_vars

\* a firing at 05:00:00.000 on such a Saturday wrote a file
C9_Witness ==
    /\ NormalSaturday(lastEvent)
    /\ lastEvent.now = QTime(SettlementCutoffHour, 0, 0)
    /\ lastEvent.written # {}
    /\ \A i \in lastEvent.written :
            flushed[i][Len(flushed[i])].saved /\ depthMarketDataListMap[i] = << >>

(***************************************************************************)
(* C10: once a trading day is set, after subscribeInstruments every        *)
(* subscribed instrument with a retained session range has a validator.    *)
(***************************************************************************)
C10_RebuiltOnSubscribe ==
    [][(lastEvent'.op = "subscribeInstruments" /\ currentTradingDay # NoDay) =>
        \A i \in subscribeSet' :
            ValidatorTimes(i, mapDay, earliestTime) # << >>
                => i \in DOMAIN timeValidators']_vars

(***************************************************************************)
(* C11, as claimed: a login success that reports a trading day other than  *)
(* the recorded one rebuilds the validator table and the timer tables.     *)
(***************************************************************************)
\* the step handles a login success that reports another trading day
DayChangeLogin == lastEvent'.op = "login" /\ lastEvent'.tradingDay # currentTradingDay

MappingEvents == {"login", "subscribeInstruments", "tick"}

Positions(calls, name) == {k \in DOMAIN calls : calls[k] = name}

C12_NeverUnset ==
    /\ mapDay = currentTradingDay
    /\ lastEvent.op \in MappingEvents => NoDay \notin lastEvent.mapDays

C12_OnceBeforeMapping ==
    DayChangeLogin =>
        /\ Cardinality(Positions(lastEvent'.calls, "setTradingDay")) = 1
        /\ \A j \in Positions(lastEvent'.calls, "setTradingDay"),
              k \in Positions(lastEvent'.calls, "setupTimeValidators") : j < k
        /\ lastEvent'.mapDays = {lastEvent'.tradingDay}

C12_TicksOnRecordedDay ==
    (lastEvent'.op \in {"tick", "subscribeInstruments"} /\ lastEvent'.mapDays # {}) =>
        /\ lastEvent'.mapDays = {currentTradingDay}
        /\ currentTradingDay # NoDay

C12_DaySetBeforeMapping ==
    /\ [](C12_NeverUnset)
    /\ [][C12_OnceBeforeMapping]_vars
    /\ [][C12_TicksOnRecordedDay]_vars

\* after a tick of "ag" accepted on the first trading day, a tick of "ag" was
\* mapped on the second trading day and accepted
C12_Witness ==
    /\ lastEvent.op = "tick"
    /\ lastEvent.instrumentID = "ag"
    /\ lastEvent.mapDays = {2}
    /\ lastEvent.mappedTime > 0
    /\ currentTradingDay = 2
    /\ mapDay = 2
    /\ Len(newMarketData["ag"]) = 2
    /\ newMarketData["ag"][1] \div 1000 = mapTime(1, 9 * 3600)

(***************************************************************************)
(* C13: a rebuild of the validator table and of the timer tables that      *)
(* follows a rebuild at once, with the same subscription set, trading day  *)
(* and earliestTime, leaves the boundaries of every validator, the groups  *)
(* and the time points as they were.                                       *)
(***************************************************************************)
Boundaries(validators) == [i \in DOMAIN validators |-> validators[i].timePoints]

\* the step is a subscribeInstruments that adds no instrument
SubscribesNothingNew == lastEvent'.op = "subscribeInstruments" /\ subscribeSet' = subscribeSet

\* the event handled before the step rebuilt the validator table
JustRebuiltValidators ==
    \/ lastEvent.op = "subscribeInstruments" /\ loggedIn
    \/ lastEvent.op = "login" /\ "setupTimeValidators" \in SeqRange(lastEvent.calls)

\* the event handled before the step built the timer tables
JustRebuiltTimers ==
    /\ saveDepthMarketData
    /\ lastEvent.op \in {"init", "subscribeInstruments"}

C13_IdempotentRebuild ==
    [][SubscribesNothingNew =>
        /\ JustRebuiltValidators => Boundaries(timeValidators') = Boundaries(timeValidators)
        /\ JustRebuiltTimers =>
                /\ instrumentsToProcess' = instrumentsToProcess
                /\ multiTimer' = multiTimer]_vars

\* logged in and with persistence enabled, subscribeInstruments([IF]) was handled
\* twice in a row: both tables were rebuilt twice
C13_Witness ==
    /\ lastEvent.op = "subscribeInstruments"
    /\ lastEvent.repeated
    /\ lastEvent.mapDays # {}
    /\ loggedIn
    /\ saveDepthMarketData
    /\ "IF" \in DOMAIN timeValidators
    /\ Len(instrumentsToProcess) = 3

(***************************************************************************)
(* C14: the time points given to the timer are strictly increasing and     *)
(* the k-th time point is the close, 60 s earlier, of the instruments of   *)
(* the k-th group, whatever the close times; so the k-th time point in     *)
(* chronological order is the one of the k-th group.                       *)
(***************************************************************************)
C14_IncreasingAligned ==
    multiTimer.armed =>
        /\ Len(instrumentsToProcess) = Len(multiTimer.timePoints)
        /\ \A k \in 1..(Len(multiTimer.timePoints) - 1) :
                multiTimer.timePoints[k] < multiTimer.timePoints[k + 1]
        /\ \A k \in 1..Len(multiTimer.timePoints) :
                instrumentsToProcess[k] =
                    {i \in subscribeSet :
                        \E c \in SeqRange(getEndPoints(i)) :
                            addSecs(c, SaveDelaySecs) =
                                SortedKeys(SeqRange(multiTimer.timePoints))[k]}

(***************************************************************************)
(* C15: at most one timer is connected, the one built last: setupTimers    *)
(* disconnects and deletes the timer built before; every firing delivered  *)
(* comes from the current list of time points and its index is an index of *)
(* the current list of groups.                                             *)
(***************************************************************************)
C15_OneTimer ==
    /\ Len(connected) <= 1
    /\ connected = IF multiTimer.armed THEN <<multiTimer>> ELSE << >>
    /\ multiTimer.armed => Len(multiTimer.timePoints) = Len(instrumentsToProcess)
    /\ multiTimer.armed <=> saveDepthMarketData

C15_ValidIndex ==
    lastEvent'.op = "timesUp" =>
        /\ 0 <= lastEvent'.index
        /\ lastEvent'.index < Len(instrumentsToProcess)
        /\ lastEvent'.index \in TimerIndexes(multiTimer)

C15_SingleTimer == [](C15_OneTimer) /\ [][C15_ValidIndex]_vars

\* after the tables were rebuilt for three close times, the firing of the last
\* time point was delivered
C15_Witness ==
    /\ lastEvent.op = "timesUp"
    /\ lastEvent.index = 2
    /\ Len(instrumentsToProcess) = 3
    /\ Len(connected) = 1
    /\ Len(connected[1].timePoints) = 3
    /\ subscribeSet # {"ag"}

(***************************************************************************)
(* C16: a login success that reports the recorded trading day leaves the   *)
(* mapper's day, the validator table and the last accepted timestamps as   *)
(* they are and emits no tradingDayChanged; a tick accepted before is      *)
(* rejected when it is delivered again after such a login.                 *)
(***************************************************************************)
SameDayLogin == lastEvent'.op = "login" /\ lastEvent'.tradingDay = currentTradingDay

C16_Frame ==
    SameDayLogin =>
        /\ UNCHANGED <<mapDay, currentTradingDay, timeValidators, earliestTime>>
        /\ "tradingDayChanged" \notin SeqRange(lastEvent'.calls)
        /\ "setTradingDay" \notin SeqRange(lastEvent'.calls)
        /\ lastEvent'.mapDays = {}
        /\ loggedIn'

C16_DuplicateAfterLogin ==
    (/\ lastEvent.op = "login"
     /\ lastEvent.tradingDay = currentTradingDay
     /\ "tradingDayChanged" \notin SeqRange(lastEvent.calls)
     /\ TickStep
     /\ TickTimestamp(lastEvent') =
            timeValidators[lastEvent'.instrumentID].latestTime)
        => NothingEmitted /\ lastEvent'.mappedTime = 0

C16_SameDayLogin == [][C16_Frame]_vars /\ [][C16_DuplicateAfterLogin]_vars

\* after a tick of "ag" was accepted and the front was disconnected, a login
\* success reported the same trading day: the validator of "ag" still holds the
\* timestamp of the tick
C16_Witness ==
    /\ lastEvent.op = "login"
    /\ lastEvent.reconnected
    /\ "tradingDayChanged" \notin SeqRange(lastEvent.calls)
    /\ loggedIn
    /\ newMarketData["ag"] # << >>
    /\ timeValidators["ag"].latestTime = newMarketData["ag"][Len(newMarketData["ag"])]

(***************************************************************************)
(* C17: no tick is accepted with a mapped time below earliestTime, also    *)
(* after setWeekend has raised earliestTime.                               *)
(***************************************************************************)
C17_NoTickBelowFloor ==
    (TickStep /\ newMarketData' # newMarketData) =>
        MappedSeconds(lastEvent') >= earliestTime

C17_FloorRespected == [][C17_NoTickBelowFloor]_vars

(***************************************************************************)
(* C18: the boundaries of every validator are an even number of entries;   *)
(* taken two by two they are mapped SessionRanges of the instrument, each  *)
(* with its start before its end, in chronological order and without       *)
(* overlap: the sort has paired no start with the end of another range.    *)
(***************************************************************************)
PairCount(validator) == Len(validator.timePoints) \div 2

C18_WellFormed ==
    \A i \in DOMAIN timeValidators :
        LET times == timeValidators[i].timePoints
            ranges == getTradingTimeRanges(i)
        IN  /\ Len(times) > 0
            /\ Len(times) % 2 = 0
            /\ \A k \in 1..PairCount(timeValidators[i]) :
                /\ times[2 * k - 1] < times[2 * k]
                /\ \E r \in 1..Len(ranges) :
                    /\ times[2 * k - 1] =
                            mapTime(mapDay, msecsSinceStartOfDay(ranges[r][1]) \div 1000)
                    /\ times[2 * k] =
                            mapTime(mapDay, msecsSinceStartOfDay(ranges[r][2]) \div 1000)
            /\ \A k \in 1..(PairCount(timeValidators[i]) - 1) :
                times[2 * k] <= times[2 * k + 1]

\* built on the second trading day with the floor of setWeekend: the validator of
\* "ag" holds the day session and the session that crosses midnight, in this order
C18_Witness ==
    /\ earliestTime > 0
    /\ mapDay = 2
    /\ "ag" \in DOMAIN timeValidators
    /\ timeValidators["ag"].timePoints =
            <<mapTime(2, 9 * 3600), mapTime(2, 15 * 3600),
              mapTime(2, 21 * 3600), mapTime(2, 2 * 3600 + 1800)>>
    /\ mapTime(2, 2 * 3600 + 1800) > mapTime(2, 21 * 3600)

(***************************************************************************)
(* C19: a tick of an instrument that has no validator is rejected without  *)
(* a call of mapTime and changes nothing: no notification, no buffer, no   *)
(* validator; an instrument without session close is in no group, the      *)
(* tables are built all the same and no firing writes a file for it.       *)
(***************************************************************************)
NoClose(i) == getEndPoints(i) = << >>

C19_TickWithoutValidator ==
    (lastEvent'.op = "tick" /\ lastEvent'.instrumentID \notin DOMAIN timeValidators) =>
        /\ lastEvent'.mapDays = {}
        /\ lastEvent'.mappedTime = 0
        /\ NothingEmitted
        /\ UNCHANGED <<timeValidators, flushed, subscribedMarketData, connected>>

C19_NeverGrouped ==
    /\ \A i \in Instruments :
            NoClose(i) =>
                /\ i \notin DOMAIN timeValidators
                /\ \A k \in 1..Len(instrumentsToProcess) : i \notin instrumentsToProcess[k]
                /\ depthMarketDataListMap[i] = << >>
    /\ saveDepthMarketData =>
            /\ multiTimer.armed
            /\ Len(multiTimer.timePoints) = Len(instrumentsToProcess)
            /\ \A k \in 1..Len(instrumentsToProcess) : instrumentsToProcess[k] # {}
    /\ lastEvent.op = "timesUp" => \A i \in lastEvent.written : ~NoClose(i)

C19_NoValidatorNoEffect == [](C19_NeverGrouped) /\ [][C19_TickWithoutValidator]_vars

\* logged in, with persistence enabled and "xx" subscribed besides an instrument
\* that has a validator and a group: a tick of "xx" was rejected without mapping
C19_Witness ==
    /\ lastEvent.op = "tick"
    /\ lastEvent.instrumentID = "xx"
    /\ lastEvent.mapDays = {}
    /\ lastEvent.mappedTime = 0
    /\ loggedIn
    /\ saveDepthMarketData
    /\ "xx" \in subscribeSet
    /\ "xx" \notin DOMAIN timeValidators
    /\ DOMAIN timeValidators # {}
    /\ Len(instrumentsToProcess) > 0
    /\ newMarketData["xx"] = << >>

(***************************************************************************)
(* C20: the subscription set only grows; while logged in, every instrument *)
(* of the set has been requested from the feed since the last login        *)
(* success: a login success requests the whole set, subscribeInstruments   *)
(* requests its instruments at once when logged in and sends nothing       *)
(* otherwise.                                                              *)
(***************************************************************************)
C20_AllRequested == loggedIn => subscribeSet \subseteq subscribedMarketData

C20_Requests ==
    /\ subscribeSet \subseteq subscribeSet'
    /\ lastEvent'.op = "login" =>
            /\ "subscribe" \in SeqRange(lastEvent'.calls)
            /\ subscribedMarketData' = subscribeSet
    /\ lastEvent'.op = "subscribeInstruments" =>
            /\ subscribeSet' = subscribeSet \cup lastEvent'.instruments
            /\ loggedIn =>
                    subscribedMarketData' = subscribedMarketData \cup lastEvent'.instruments
            /\ ~loggedIn => subscribedMarketData' = subscribedMarketData
    /\ lastEvent'.op \notin {"login", "subscribeInstruments"} =>
            UNCHANGED <<subscribeSet, subscribedMarketData>>

C20_SubscriptionsRequested == [](C20_AllRequested) /\ [][C20_Requests]_vars

\* instruments were added while the front was disconnected; the login success that
\* followed requested the whole set
C20_Witness ==
    /\ lastEvent.op = "login"
    /\ lastEvent.reconnected
    /\ loggedIn
    /\ subscribeSet = {"ag", "au", "IF"}
    /\ subscribedMarketData = {"ag", "au", "IF"}

====
